---- MODULE Spec2Model ----
(***************************************************************************)
(* TicketService.purchaseTickets of cinema-tickets-javascript: one         *)
(* synchronous call, modelled stage by stage.  The state is the call's     *)
(* arguments, its locals, the collaborators' invocation record, the        *)
(* logger's entries and the way the call ended (returned or thrown).       *)
(***************************************************************************)
EXTENDS Integers, Sequences, FiniteSets, TLC

VARIABLES
    accountId,       \* first argument of purchaseTickets: any JS value
    ticketRequests,  \* rest arguments: a sequence of TicketTypeRequest values
    pc,              \* the statement of purchaseTickets about to run
    ticketCounts,    \* const ticketCounts of #processTicketRequests
    ticketSummary,   \* const ticketSummary of purchaseTickets
    totalCost,       \* const totalCost of purchaseTickets
    error,           \* the exception in flight to / bound by catch (error)
    calls,           \* invocations of the two third-party services, in order
    logs,            \* logger.log invocations, in order
    trace,           \* the private methods entered, in order
    outcome,         \* "running", "returned" or "thrown"
    result           \* the value returned by purchaseTickets

vars == << accountId, ticketRequests, pc, ticketCounts, ticketSummary, totalCost,
           error, calls, logs, trace, outcome, result >>

-----------------------------------------------------------------------------
(* Bounds of the explored inputs *)

MaxRequests == 3          \* longest request list in Spec
MaxAccountRequests == 2   \* longest request list in SpecAccounts
NegQty == 1               \* quantities go down to -NegQty
SmallQty == 2             \* ... and up to SmallQty, plus the values around the limit

-----------------------------------------------------------------------------
(* Program constants *)

TICKET_PRICES == [ADULT |-> 25, CHILD |-> 15, INFANT |-> 0]

MAX_TICKETS_PER_PURCHASE == 25

-----------------------------------------------------------------------------
(* JavaScript values passed as accountId.  A value is described by its     *)
(* typeof-like tag and by what ToNumber makes of it: nan, or the number    *)
(* whose floor is num and which is whole iff whole.                        *)

JSValue(type, repr, num, whole, nan) ==
    [type |-> type, repr |-> repr, num |-> num, whole |-> whole, nan |-> nan]

JSNumber(n) == JSValue("number", ToString(n), n, TRUE, FALSE)

ValidAccountIds == { JSNumber(1), JSNumber(1234) }

InvalidAccountIds ==
    { JSNumber(0), JSNumber(-1),
      JSValue("number",    "123.45",       123,  FALSE, FALSE),
      JSValue("number",    "NaN",          0,    FALSE, TRUE),
      JSValue("string",    "not-a-number", 0,    FALSE, TRUE),
      JSValue("string",    "1234",         1234, TRUE,  FALSE),
      JSValue("null",      "null",         0,    TRUE,  FALSE),
      JSValue("undefined", "undefined",    0,    FALSE, TRUE),
      JSValue("boolean",   "true",         1,    TRUE,  FALSE),
      JSValue("object",    "[1234]",       1234, TRUE,  FALSE),
      JSValue("object",    "{id:1234}",    0,    FALSE, TRUE) }

AccountIds == ValidAccountIds \cup InvalidAccountIds

\* Number.isInteger(v): no coercion, a number that is finite and whole
NumberIsInteger(v) == v.type = "number" /\ ~v.nan /\ v.whole

\* v > 0: ToNumber(v) compared with 0, any comparison with NaN being false
GreaterThanZero(v) == ~v.nan /\ (v.num > 0 \/ (v.num = 0 /\ ~v.whole))

-----------------------------------------------------------------------------
(* TicketTypeRequest: immutable value, checked at construction *)

TicketTypes == {"ADULT", "CHILD", "INFANT"}

Quantities ==
    ((0 - NegQty) .. SmallQty)
        \cup {MAX_TICKETS_PER_PURCHASE, MAX_TICKETS_PER_PURCHASE + 1}

\* new TicketTypeRequest(type, noOfTickets) does not throw
TicketTypeRequestAccepted(type, noOfTickets) ==
    type \in TicketTypes /\ noOfTickets \in Int

TicketTypeRequests ==
    { r \in [type : TicketTypes \cup {"INVALID"}, noOfTickets : Quantities] :
        TicketTypeRequestAccepted(r.type, r.noOfTickets) }

RequestLists(n) == UNION { [1..k -> TicketTypeRequests] : k \in 0..n }

-----------------------------------------------------------------------------
(* Exceptions, responses, log entries *)

NoError == [kind |-> "none", operation |-> "", message |-> ""]

\* new InvalidPurchaseException(operation, message)
InvalidPurchaseException(operation, message) ==
    [kind |-> "InvalidPurchaseException", operation |-> operation, message |-> message]

\* an error raised by a third-party service
ServiceError(message) == [kind |-> "Error", operation |-> "", message |-> message]

ServiceErrorMessages == {"service unavailable"}

\* what a call of a third-party service can do: return, or raise an error
ServiceOutcomes == {NoError} \cup { ServiceError(m) : m \in ServiceErrorMessages }

NoResult == [statusCode |-> 0, type |-> "", title |-> "", detail |-> ""]

Response(statusCode, type, title, detail) ==
    [statusCode |-> statusCode, type |-> type, title |-> title, detail |-> detail]

\* logger.log(level, {statusCode?, type, title, detail}); statusCode 0 = absent
LogEntry(level, statusCode, type, title, detail) ==
    [level |-> level, statusCode |-> statusCode, type |-> type, title |-> title,
     detail |-> detail]

InfoEntry(type, detail) == LogEntry("info", 0, type, "Success", detail)

\* InvalidPurchaseException.globalExceptionHandler(): the 400 payload
ErrorPayload(e) == Response(400, e.operation, "An error occured", e.message)

-----------------------------------------------------------------------------
(* Pure helpers of TicketService *)

\* variant: the type check dropped, only the coercing comparison is left
isValidAccountId_Coercing(a) == GreaterThanZero(a)

isValidAccountId(a) == NumberIsInteger(a) /\ GreaterThanZero(a)

hasValidTicketRequests(reqs) == Len(reqs) > 0

NoCounts == [adults |-> 0, children |-> 0, infants |-> 0, total |-> 0]

NoSummary == [adults |-> 0, children |-> 0, infants |-> 0, total |-> 0, seatsNeeded |-> 0]

RECURSIVE countLoop(_, _)
\* the for..of loop with its switch: counts after the requests of reqs
countLoop(reqs, counts) ==
    IF reqs = << >> THEN counts
    ELSE LET request  == Head(reqs)
             quantity == request.noOfTickets
             next     ==
                 CASE request.type = "ADULT"  ->
                        [counts EXCEPT !.adults = @ + quantity]
                   [] request.type = "CHILD"  ->
                        [counts EXCEPT !.children = @ + quantity]
                   [] request.type = "INFANT" ->
                        [counts EXCEPT !.infants = @ + quantity]
                   [] OTHER -> counts
         IN  countLoop(Tail(reqs), next)

countTicketsByType(reqs) ==
    LET counts == countLoop(reqs, NoCounts)
    IN  [counts EXCEPT !.total = counts.adults + counts.children + counts.infants]

TooManyMessage ==
    "Cannot purchase more than " \o ToString(MAX_TICKETS_PER_PURCHASE)
        \o " tickets at once."

\* variant: the child rule tested before the infant rule
validateBusinessRules_ChildRuleFirst(c) ==
    IF c.total <= 0
    THEN InvalidPurchaseException("validateRules", "Cannot purchase zero tickets.")
    ELSE IF c.total > MAX_TICKETS_PER_PURCHASE
    THEN InvalidPurchaseException("validateRules", TooManyMessage)
    ELSE IF c.children > 0 /\ c.adults = 0
    THEN InvalidPurchaseException("validateRules",
                                  "Children must be accompanied by at least one adult.")
    ELSE IF c.adults < c.infants
    THEN InvalidPurchaseException("validateRules",
                                  "Must have at least one adult per infant ticket.")
    ELSE NoError

\* variant: the child rule tests children > adults
validateBusinessRules_ChildrenOutnumber(c) ==
    IF c.total <= 0
    THEN InvalidPurchaseException("validateRules", "Cannot purchase zero tickets.")
    ELSE IF c.total > MAX_TICKETS_PER_PURCHASE
    THEN InvalidPurchaseException("validateRules", TooManyMessage)
    ELSE IF c.adults < c.infants
    THEN InvalidPurchaseException("validateRules",
                                  "Must have at least one adult per infant ticket.")
    ELSE IF c.children > 0 /\ c.adults < 0
    THEN InvalidPurchaseException("validateRules",
                                  "Children must be accompanied by at least one adult.")
    ELSE NoError

\* variant: the first rule tests total < 0
validateBusinessRules_ZeroAllowed(c) ==
    IF c.total < 0
    THEN InvalidPurchaseException("validateRules", "Cannot purchase zero tickets.")
    ELSE IF c.total > MAX_TICKETS_PER_PURCHASE
    THEN InvalidPurchaseException("validateRules", TooManyMessage)
    ELSE IF c.adults < c.infants
    THEN InvalidPurchaseException("validateRules",
                                  "Must have at least one adult per infant ticket.")
    ELSE IF c.children > 0 /\ c.adults = 0
    THEN InvalidPurchaseException("validateRules",
                                  "Children must be accompanied by at least one adult.")
    ELSE NoError

\* the exception #validateBusinessRules throws, NoError when it returns
validateBusinessRules(c) ==
    IF c.total <= 0
    THEN InvalidPurchaseException("validateRules", "Cannot purchase zero tickets.")
    ELSE IF c.total > MAX_TICKETS_PER_PURCHASE
    THEN InvalidPurchaseException("validateRules", TooManyMessage)
    ELSE IF c.adults < c.infants
    THEN InvalidPurchaseException("validateRules",
                                  "Must have at least one adult per infant ticket.")
    ELSE IF c.children > 0 /\ c.adults = 0
    THEN InvalidPurchaseException("validateRules",
                                  "Children must be accompanied by at least one adult.")
    ELSE NoError

\* variant: a seat for every ticket, infants included
makeSummary_SeatsForInfants(c) ==
    [adults |-> c.adults, children |-> c.children, infants |-> c.infants,
     total |-> c.total, seatsNeeded |-> c.total]

makeSummary(c) ==
    [adults |-> c.adults, children |-> c.children, infants |-> c.infants,
     total |-> c.total, seatsNeeded |-> c.adults + c.children]

orderTotal(s) ==
    s.adults * TICKET_PRICES.ADULT
        + s.children * TICKET_PRICES.CHILD
        + s.infants * TICKET_PRICES.INFANT

\* one invocation of a third-party service
Invocation(method, account, amount, raised) ==
    [method |-> method, accountId |-> account, arg |-> amount, ok |-> raised = NoError]

\* variant: the response is logged as well
successLogs_ResponseToo ==
    << InfoEntry("purchaseComplete", "Ticket purchase successful"),
       InfoEntry("purchaseTickets", "Ticket purchase completed successfully") >>

\* what this.#createSuccessResponse() logs before it returns the response
successLogs ==
    << InfoEntry("purchaseComplete", "Ticket purchase successful") >>

successResponse ==
    Response(200, "purchaseTickets", "Success", "Ticket purchase completed successfully")

-----------------------------------------------------------------------------
(* The call *)

Start(ids, lists) ==
    /\ accountId \in ids
    /\ ticketRequests \in lists
    /\ pc = "validateAccount"
    /\ ticketCounts = NoCounts
    /\ ticketSummary = NoSummary
    /\ totalCost = 0
    /\ error = NoError
    /\ calls = << >>
    /\ logs = << >>
    /\ trace = << >>
    /\ outcome = "running"
    /\ result = NoResult

Init == Start({JSNumber(1234), JSNumber(0)}, RequestLists(MaxRequests))

InitAccounts == Start(AccountIds, RequestLists(MaxAccountRequests))

\* this.#validateAccount(accountId)
ValidateAccount ==
    /\ pc = "validateAccount"
    /\ trace' = Append(trace, "validateAccount")
    /\ IF ~isValidAccountId(accountId)
       THEN /\ error' = InvalidPurchaseException("validateAccount",
                            "Account ID must be a positive integer.")
            /\ pc' = "catch"
            /\ logs' = logs
       ELSE /\ logs' = Append(logs, InfoEntry("validateAccount",
                            "Account " \o accountId.repr \o " validated successfully"))
            /\ pc' = "processTicketRequests"
            /\ error' = error
    /\ UNCHANGED << accountId, ticketRequests, ticketCounts, ticketSummary, totalCost,
                    calls, outcome, result >>

\* const ticketSummary = this.#processTicketRequests(ticketRequests)
ProcessTicketRequests ==
    /\ pc = "processTicketRequests"
    /\ trace' = Append(trace, "processTicketRequests")
    /\ IF ~hasValidTicketRequests(ticketRequests)
       THEN /\ error' = InvalidPurchaseException("processTickets", "No tickets requested.")
            /\ pc' = "catch"
            /\ UNCHANGED << ticketCounts, ticketSummary, logs >>
       ELSE LET counts  == countTicketsByType(ticketRequests)
                thrown  == validateBusinessRules(counts)
                summary == makeSummary(counts)
            IN  /\ ticketCounts' = counts
                /\ IF thrown # NoError
                   THEN /\ error' = thrown
                        /\ pc' = "catch"
                        /\ UNCHANGED << ticketSummary, logs >>
                   ELSE /\ ticketSummary' = summary
                        /\ logs' = Append(logs, InfoEntry("processTickets",
                               "Validated: " \o ToString(summary.adults) \o " adults, "
                                 \o ToString(summary.children) \o " children, "
                                 \o ToString(summary.infants) \o " infants"))
                        /\ pc' = "calculateOrderTotal"
                        /\ error' = error
    /\ UNCHANGED << accountId, ticketRequests, totalCost, calls, outcome, result >>

\* const totalCost = this.#calculateOrderTotal(ticketSummary)
CalculateOrderTotal ==
    /\ pc = "calculateOrderTotal"
    /\ trace' = Append(trace, "calculateOrderTotal")
    /\ totalCost' = orderTotal(ticketSummary)
    /\ logs' = Append(logs, InfoEntry("calculateTotal",
                  "Order total: " \o ToString(orderTotal(ticketSummary))))
    /\ pc' = "processPayment"
    /\ UNCHANGED << accountId, ticketRequests, ticketCounts, ticketSummary, error,
                    calls, outcome, result >>

\* variant: the service's error is rethrown as it is
ProcessPayment_Rethrows ==
    /\ pc = "processPayment"
    /\ trace' = Append(trace, "processPayment")
    /\ \E raised \in ServiceOutcomes :
          /\ calls' = Append(calls, Invocation("makePayment", accountId, totalCost, raised))
          /\ IF raised # NoError
             THEN /\ error' = raised
                  /\ pc' = "catch"
             ELSE /\ pc' = "reserveSeats"
                  /\ error' = error
    /\ UNCHANGED << accountId, ticketRequests, ticketCounts, ticketSummary, totalCost,
                    logs, outcome, result >>

\* variant: the service's error is swallowed
ProcessPayment_IgnoresFailure ==
    /\ pc = "processPayment"
    /\ trace' = Append(trace, "processPayment")
    /\ \E raised \in ServiceOutcomes :
          calls' = Append(calls, Invocation("makePayment", accountId, totalCost, raised))
    /\ pc' = "reserveSeats"
    /\ UNCHANGED << accountId, ticketRequests, ticketCounts, ticketSummary, totalCost,
                    error, logs, outcome, result >>

\* this.#processPayment(accountId, totalCost)
ProcessPayment ==
    /\ pc = "processPayment"
    /\ trace' = Append(trace, "processPayment")
    /\ \E raised \in ServiceOutcomes :
          /\ calls' = Append(calls, Invocation("makePayment", accountId, totalCost, raised))
          /\ IF raised # NoError
             THEN /\ error' = InvalidPurchaseException("processPayment",
                                 "Payment processing failed: " \o raised.message)
                  /\ pc' = "catch"
             ELSE /\ pc' = "reserveSeats"
                  /\ error' = error
    /\ UNCHANGED << accountId, ticketRequests, ticketCounts, ticketSummary, totalCost,
                    logs, outcome, result >>

\* variant: the failure is tagged with the payment's operation
ReserveSeats_TaggedAsPayment ==
    /\ pc = "reserveSeats"
    /\ trace' = Append(trace, "reserveSeats")
    /\ \E raised \in ServiceOutcomes :
          /\ calls' = Append(calls, Invocation("reserveSeat", accountId,
                                               ticketSummary.seatsNeeded, raised))
          /\ IF raised # NoError
             THEN /\ error' = InvalidPurchaseException("processPayment",
                                 "Seat reservation failed: " \o raised.message)
                  /\ pc' = "catch"
                  /\ logs' = logs
             ELSE /\ logs' = Append(logs, InfoEntry("reserveSeats",
                                 "Reserved " \o ToString(ticketSummary.seatsNeeded)
                                   \o " seats for account " \o accountId.repr))
                  /\ pc' = "createSuccessResponse"
                  /\ error' = error
    /\ UNCHANGED << accountId, ticketRequests, ticketCounts, ticketSummary, totalCost,
                    outcome, result >>

\* this.#reserveSeats(accountId, ticketSummary.seatsNeeded)
ReserveSeats ==
    /\ pc = "reserveSeats"
    /\ trace' = Append(trace, "reserveSeats")
    /\ \E raised \in ServiceOutcomes :
          /\ calls' = Append(calls, Invocation("reserveSeat", accountId,
                                               ticketSummary.seatsNeeded, raised))
          /\ IF raised # NoError
             THEN /\ error' = InvalidPurchaseException("reserveSeats",
                                 "Seat reservation failed: " \o raised.message)
                  /\ pc' = "catch"
                  /\ logs' = logs
             ELSE /\ logs' = Append(logs, InfoEntry("reserveSeats",
                                 "Reserved " \o ToString(ticketSummary.seatsNeeded)
                                   \o " seats for account " \o accountId.repr))
                  /\ pc' = "createSuccessResponse"
                  /\ error' = error
    /\ UNCHANGED << accountId, ticketRequests, ticketCounts, ticketSummary, totalCost,
                    outcome, result >>

\* return this.#createSuccessResponse()
CreateSuccessResponse ==
    /\ pc = "createSuccessResponse"
    /\ trace' = Append(trace, "createSuccessResponse")
    /\ logs' = logs \o successLogs
    /\ result' = successResponse
    /\ outcome' = "returned"
    /\ pc' = "done"
    /\ UNCHANGED << accountId, ticketRequests, ticketCounts, ticketSummary, totalCost,
                    error, calls >>

\* catch (error) { return error.globalExceptionHandler(); }
\* Only an InvalidPurchaseException has the method; on any other error the
\* call itself raises a TypeError, which leaves purchaseTickets.
GlobalExceptionHandler ==
    /\ pc = "catch"
    /\ trace' = Append(trace, "catch")
    /\ IF error.kind = "InvalidPurchaseException"
       THEN /\ logs' = Append(logs, LogEntry("error", 400, error.operation,
                                             "An error occured", error.message))
            /\ result' = ErrorPayload(error)
            /\ outcome' = "returned"
       ELSE /\ outcome' = "thrown"
            /\ UNCHANGED << logs, result >>
    /\ pc' = "done"
    /\ UNCHANGED << accountId, ticketRequests, ticketCounts, ticketSummary, totalCost,
                    error, calls >>

Next ==
    \/ ValidateAccount
    \/ ProcessTicketRequests
    \/ CalculateOrderTotal
    \/ ProcessPayment
    \/ ReserveSeats
    \/ CreateSuccessResponse
    \/ GlobalExceptionHandler

Spec == Init /\ [][Next]_vars

SpecAccounts == InitAccounts /\ [][Next]_vars

-----------------------------------------------------------------------------
(* Vocabulary of the properties, stated over the call's arguments *)

RECURSIVE RequestedUpTo(_, _)
\* the tickets of one type asked for by the first n requests
RequestedUpTo(type, n) ==
    IF n = 0 THEN 0
    ELSE RequestedUpTo(type, n - 1)
           + (IF ticketRequests[n].type = type THEN ticketRequests[n].noOfTickets ELSE 0)

Adults == RequestedUpTo("ADULT", Len(ticketRequests))
Children == RequestedUpTo("CHILD", Len(ticketRequests))
Infants == RequestedUpTo("INFANT", Len(ticketRequests))
Total == Adults + Children + Infants

PositiveWholeAccount ==
    accountId.type = "number" /\ ~accountId.nan /\ accountId.whole /\ accountId.num >= 1

NonNegativeQuantities ==
    \A i \in 1..Len(ticketRequests) : ticketRequests[i].noOfTickets >= 0

Finished == pc = "done"

Failure(type, detail) == result = Response(400, type, "An error occured", detail)

FailureOf(type) ==
    result.statusCode = 400 /\ result.type = type /\ result.title = "An error occured"

Paid == \E i \in 1..Len(calls) : calls[i].method = "makePayment" /\ calls[i].ok

Invoked(method) == { i \in 1..Len(calls) : calls[i].method = method }

NoRuleViolated ==
    /\ Total > 0
    /\ Total <= 25
    /\ Adults >= Infants
    /\ ~(Children > 0 /\ Adults = 0)

Pipeline ==
    << "validateAccount", "processTicketRequests", "calculateOrderTotal",
       "processPayment", "reserveSeats", "createSuccessResponse" >>

IsPrefix(s, t) == Len(s) <= Len(t) /\ \A i \in 1..Len(s) : s[i] = t[i]

-----------------------------------------------------------------------------
(* C1: with a valid account and a non-empty list, the failure reported is  *)
(* that of the first rule, in the order total <= 0, total > 25,            *)
(* adults < infants, children without adult, that the counts violate; and  *)
(* counts violating no rule give no validateRules failure.                 *)
C1_FirstViolatedRuleWins ==
    (Finished /\ PositiveWholeAccount /\ Len(ticketRequests) > 0) =>
        IF Total <= 0
        THEN Failure("validateRules", "Cannot purchase zero tickets.")
        ELSE IF Total > 25
        THEN Failure("validateRules", "Cannot purchase more than 25 tickets at once.")
        ELSE IF Adults < Infants
        THEN Failure("validateRules", "Must have at least one adult per infant ticket.")
        ELSE IF Children > 0 /\ Adults = 0
        THEN Failure("validateRules",
                     "Children must be accompanied by at least one adult.")
        ELSE result.type # "validateRules"

\* counts that violate the infant rule and the child rule at once
C1_Witness ==
    /\ Finished /\ PositiveWholeAccount
    /\ Total > 0 /\ Total <= 25
    /\ Adults = 0 /\ Infants > 0 /\ Children > 0
    /\ Failure("validateRules", "Must have at least one adult per infant ticket.")

(* C2: the call never ends by throwing: it can always go on until it is    *)
(* finished, and finished it has returned a result of status 200 or 400,   *)
(* whatever the account id, the requests and the collaborators did.        *)
C2_AlwaysReturnsNeverThrows ==
    /\ outcome # "thrown"
    /\ Finished \/ ENABLED Next
    /\ Finished =>
          /\ outcome = "returned"
          /\ \/ result = Response(200, "purchaseTickets", "Success",
                                  "Ticket purchase completed successfully")
             \/ /\ result.statusCode = 400
                /\ result.type \in {"validateAccount", "processTickets", "validateRules",
                                    "processPayment", "reserveSeats"}

\* a collaborator raised an error and the call still returned a value
C2_Witness ==
    /\ Finished /\ outcome = "returned"
    /\ \E i \in 1..Len(calls) : ~calls[i].ok
    /\ result.statusCode = 400

(* C3: an account id that is not a whole number > 0 gives the              *)
(* validateAccount failure whatever the requests are, and nothing else of  *)
(* the pipeline has run: no ticket check, no collaborator call.            *)
C3_InvalidAccountRejectedFirst ==
    (Finished /\ ~PositiveWholeAccount) =>
        /\ Failure("validateAccount", "Account ID must be a positive integer.")
        /\ trace = << "validateAccount", "catch" >>
        /\ calls = << >>

\* a numerically coercible non-number with a list that breaks a business rule
C3_Witness ==
    /\ Finished
    /\ accountId.type = "boolean"
    /\ Len(ticketRequests) = 2 /\ Total > 25
    /\ FailureOf("validateAccount")

(* C4: makePayment receives the caller's account id and                    *)
(* 25*adults + 15*children + 0*infants, reserveSeat the account id and     *)
(* adults + children, the quantities of each category summed over all      *)
(* requests.                                                               *)
C4_CollaboratorArguments ==
    \A i \in 1..Len(calls) :
        /\ calls[i].accountId = accountId
        /\ calls[i].method = "makePayment" =>
              calls[i].arg = 25 * Adults + 15 * Children + 0 * Infants
        /\ calls[i].method = "reserveSeat" =>
              calls[i].arg = Adults + Children

\* 2 adults + 1 child + 1 infant: 65 charged, 3 seats
C4_Witness ==
    /\ Adults = 2 /\ Children = 1 /\ Infants = 1
    /\ Len(calls) = 2
    /\ calls[1].method = "makePayment" /\ calls[1].arg = 65
    /\ calls[2].method = "reserveSeat" /\ calls[2].arg = 3

(* C5: the stages run in the fixed order and a failing stage skips the     *)
(* later ones; makePayment only after account, non-empty and rule checks   *)
(* passed; reserveSeat only after makePayment returned; a payment error    *)
(* gives Failure(processPayment) without reserveSeat; each collaborator    *)
(* is invoked at most once.                                                *)
C5_StagesInOrderNoRetry ==
    /\ \/ IsPrefix(trace, Pipeline)
       \/ /\ trace # << >>
          /\ trace[Len(trace)] = "catch"
          /\ IsPrefix(SubSeq(trace, 1, Len(trace) - 1), Pipeline)
          /\ Len(trace) <= Len(Pipeline)
    /\ Cardinality(Invoked("makePayment")) <= 1
    /\ Cardinality(Invoked("reserveSeat")) <= 1
    /\ Invoked("makePayment") # {} =>
          /\ PositiveWholeAccount /\ Len(ticketRequests) > 0 /\ NoRuleViolated
          /\ calls[1].method = "makePayment"
    /\ Invoked("reserveSeat") # {} =>
          /\ Len(calls) = 2
          /\ calls[1].method = "makePayment" /\ calls[1].ok
          /\ calls[2].method = "reserveSeat"
    /\ (calls # << >> /\ ~calls[1].ok) =>
          /\ Len(calls) = 1
          /\ Finished => FailureOf("processPayment")

\* the payment failed: the call is over, reserveSeat was not attempted
C5_Witness ==
    /\ Finished
    /\ Len(calls) = 1 /\ calls[1].method = "makePayment" /\ ~calls[1].ok
    /\ FailureOf("processPayment")
    /\ trace = << "validateAccount", "processTicketRequests", "calculateOrderTotal",
                  "processPayment", "catch" >>

(* C6 as stated: with a valid account, counts with children > 0 and        *)
(* adults = 0 always give the validateRules failure "Children must be      *)
(* accompanied by at least one adult."                                     *)
C6_ChildrenAloneAlwaysChildMessage ==
    (Finished /\ PositiveWholeAccount /\ Children > 0 /\ Adults = 0) =>
        Failure("validateRules", "Children must be accompanied by at least one adult.")

(* C6 amended: with a valid account, counts with children > 0 and          *)
(* adults = 0 always give a validateRules failure, and its detail is the   *)
(* child message exactly when no earlier rule is violated, that is when    *)
(* 0 < total <= 25 and adults >= infants.                                  *)
C6_ChildrenAloneRejected ==
    (Finished /\ PositiveWholeAccount /\ Children > 0 /\ Adults = 0) =>
        /\ FailureOf("validateRules")
        /\ calls = << >>
        /\ (Total > 0 /\ Total <= 25 /\ Adults >= Infants) <=>
              Failure("validateRules",
                      "Children must be accompanied by at least one adult.")

\* children only, within the limits: the child message
C6_Witness ==
    /\ Finished /\ PositiveWholeAccount
    /\ Children > 0 /\ Adults = 0 /\ Infants = 0 /\ Total <= 25
    /\ Failure("validateRules", "Children must be accompanied by at least one adult.")

(* C7 as stated, for the calls that reach payment: the aggregated counts   *)
(* of a list of requests accepted at construction are all >= 0 and total   *)
(* is their sum, so that no amount or seat count comes from a negative     *)
(* count.                                                                  *)
C7_CountsNonNegativeWhenPaying ==
    calls # << >> =>
        /\ ticketCounts.adults >= 0
        /\ ticketCounts.children >= 0
        /\ ticketCounts.infants >= 0
        /\ ticketCounts.total
              = ticketCounts.adults + ticketCounts.children + ticketCounts.infants

\* the informational entries logged after the reservation's own entry
CompletionEntries ==
    { i \in 1..Len(logs) :
        /\ logs[i].level = "info"
        /\ \E j \in 1..(i - 1) : logs[j].type = "reserveSeats" }

(* C8 as stated: a successful call ends with two informational log         *)
(* entries for the completion of the purchase, then returns Success.       *)
C8_TwoCompletionEntries ==
    (Finished /\ result.statusCode = 200) => Cardinality(CompletionEntries) = 2

(* C8 amended: a successful call emits, after the reservation's entry,     *)
(* exactly one informational log entry for the completion of the purchase  *)
(* (type purchaseComplete), as its last entry, and returns Success with    *)
(* statusCode 200 and type purchaseTickets; a call returns Success only    *)
(* after reserveSeat returned without error.                               *)
C8_OneCompletionEntryThenSuccess ==
    /\ (Finished /\ result.statusCode = 200) =>
          /\ Cardinality(CompletionEntries) = 1
          /\ logs[Len(logs)] = [level |-> "info", statusCode |-> 0,
                                type |-> "purchaseComplete", title |-> "Success",
                                detail |-> "Ticket purchase successful"]
          /\ \A i \in 1..Len(logs) : logs[i].level = "info"
          /\ result = Response(200, "purchaseTickets", "Success",
                               "Ticket purchase completed successfully")
          /\ Len(calls) = 2 /\ calls[2].method = "reserveSeat" /\ calls[2].ok
    /\ (Finished /\ Len(calls) = 2 /\ calls[2].ok) => result.statusCode = 200

C8_Witness ==
    /\ Finished /\ result.statusCode = 200
    /\ Len(logs) = 5
    /\ logs[4].type = "reserveSeats" /\ logs[5].type = "purchaseComplete"

(* C9: with non-negative quantities, a call that reaches makePayment has   *)
(* at least one adult, between 1 and 25 seats and an amount of at least    *)
(* 25; a list without an adult causes no payment and no reservation.       *)
C9_PaymentNeedsAnAdult ==
    NonNegativeQuantities =>
        /\ calls # << >> =>
              /\ Adults >= 1
              /\ Adults + Children >= 1 /\ Adults + Children <= 25
              /\ calls[1].arg >= 25
        /\ Adults = 0 => calls = << >>

\* the smallest purchase that is paid for: one adult, 25
C9_Witness ==
    /\ NonNegativeQuantities
    /\ Adults = 1 /\ Children = 0
    /\ Len(calls) = 2 /\ calls[1].arg = 25 /\ calls[2].arg = 1

(* C10: a reserveSeats failure comes after exactly one makePayment, for    *)
(* the full amount, that returned without error, and no further            *)
(* collaborator call follows the failed reserveSeat; a failure of any      *)
(* other type comes without a successful payment.                          *)
C10_FailureAfterPaymentOnlyForReserveSeats ==
    (Finished /\ result.statusCode = 400) =>
        IF result.type = "reserveSeats"
        THEN /\ Len(calls) = 2
             /\ calls[1] = [method |-> "makePayment", accountId |-> accountId,
                            arg |-> 25 * Adults + 15 * Children, ok |-> TRUE]
             /\ calls[2].method = "reserveSeat" /\ ~calls[2].ok
        ELSE /\ result.type \in {"validateAccount", "processTickets", "validateRules",
                                 "processPayment"}
             /\ ~Paid

\* the money was taken and the call reports a failure
C10_Witness ==
    /\ Finished /\ FailureOf("reserveSeats")
    /\ Paid /\ calls[1].arg > 0

====
